---- MODULE Spec2Model ----
(* Model of src/driver/safe/external_memory.rs: the lifetime layer over the  *)
(* CUDA external-memory driver calls (ExternalMemory, MappedBuffer,          *)
(* MipMappedArray).  Every native call and every context bind may fail; a    *)
(* failed unwrap()/assert! is a panic, a panic raised while unwinding from   *)
(* another panic aborts the process.                                         *)
EXTENDS Integers, Sequences, FiniteSets, TLC

(* ---- bounds ---- *)
MaxImports == 1
MaxViews == 2
MaxSize == 1
MaxDim == 1
MaxLevel == 1

Mems == 1..MaxImports
Views == 1..MaxViews
Sizes == 0..MaxSize
Coords == 0..(MaxSize + 1)
Dims == 1..MaxDim
Levels == 0..MaxLevel
Platforms == {"unix", "windows"}

VARIABLES platform, current, mem, views, rc, held, last, halted

vars == <<platform, current, mem, views, rc, held, last, halted>>

(* ---- events of the native call layer and of the context binder ---- *)
Ev(call, ok, ctx, a, b) == [call |-> call, ok |-> ok, ctx |-> ctx, a |-> a, b |-> b]

(* last: the most recent operation of this layer: its arguments (a, b: the  *)
(* range, the dimensions or the level; n: the handle's size), its outcome   *)
(* ("ok", "err" = Err(DriverError), "panic", "abort"), the cause of a panic *)
(* and the calls it issued, in order.                                       *)
(* ty: the ExternalMemoryType given to an import ("none" for every other   *)
(* operation).                                                              *)
NoOp == [op |-> "init", mem |-> 0, view |-> 0, a |-> 0, b |-> 0, n |-> 0, outcome |-> "ok",
         cause |-> "none", trace |-> <<>>, ty |-> "none"]

Done(op, m, v, a, b, n, outcome, cause, trace) ==
    [op |-> op, mem |-> m, view |-> v, a |-> a, b |-> b, n |-> n, outcome |-> outcome,
     cause |-> cause, trace |-> trace, ty |-> "none"]

(* The context current on the calling thread is "dev" (the owning device's) *)
(* or "other" (none, or some other context).                                *)
(* CudaDevice::bind_to_thread: makes the device's context current, or fails *)
(* and leaves the thread's current context as it was.                       *)
bind_to_thread(ok, cur) ==
    [ok |-> ok, cur |-> IF ok THEN "dev" ELSE cur, trace |-> <<Ev("bind", ok, cur, 0, 0)>>]

(* ---- ExternalMemoryType and the native handle-type enumeration ---- *)
(* the variants of enum ExternalMemoryType, and those compiled in on each   *)
(* platform family (cfg(unix), cfg(windows), or no cfg)                     *)
ExternalMemoryType ==
    {"FileDescriptor", "Windows", "WindowsKMT", "DirectX12Heap", "DirectX12Resource",
     "DirectX11Resource", "DirectX11ResourceKMT", "NvSciBuf"}

ExternalMemoryTypeOn(plat) ==
    IF plat = "unix" THEN {"FileDescriptor", "NvSciBuf"}
    ELSE ExternalMemoryType \ {"FileDescriptor"}

(* sys::CUexternalMemoryHandleType_enum, without the common prefix          *)
(* CU_EXTERNAL_MEMORY_HANDLE_TYPE_ of its members                           *)
CUexternalMemoryHandleType_enum ==
    {"OPAQUE_FD", "OPAQUE_WIN32", "OPAQUE_WIN32_KMT", "D3D12_HEAP", "D3D12_RESOURCE",
     "D3D11_RESOURCE", "D3D11_RESOURCE_KMT", "NVSCIBUF"}

(* `as u32` of a member of the native enumeration: its integer code         *)
AsU32(h) ==
    CASE h = "OPAQUE_FD" -> 1
      [] h = "OPAQUE_WIN32" -> 2
      [] h = "OPAQUE_WIN32_KMT" -> 3
      [] h = "D3D12_HEAP" -> 4
      [] h = "D3D12_RESOURCE" -> 5
      [] h = "D3D11_RESOURCE" -> 6
      [] h = "D3D11_RESOURCE_KMT" -> 7
      [] h = "NVSCIBUF" -> 8

(* the declared discriminant of each variant (repr(u32))                    *)
Discriminant(v) ==
    CASE v = "FileDescriptor" -> AsU32("OPAQUE_FD")
      [] v = "Windows" -> AsU32("OPAQUE_WIN32")
      [] v = "WindowsKMT" -> AsU32("OPAQUE_WIN32_KMT")
      [] v = "DirectX12Heap" -> AsU32("D3D12_HEAP")
      [] v = "DirectX12Resource" -> AsU32("D3D12_RESOURCE")
      [] v = "DirectX11Resource" -> AsU32("D3D11_RESOURCE")
      [] v = "DirectX11ResourceKMT" -> AsU32("D3D11_RESOURCE_KMT")
      [] v = "NvSciBuf" -> AsU32("NVSCIBUF")

(* an into() whose arms for the two DirectX 11 variants are exchanged       *)
intoExchanged(v) ==
    CASE v = "FileDescriptor" -> "OPAQUE_FD"
      [] v = "Windows" -> "OPAQUE_WIN32"
      [] v = "WindowsKMT" -> "OPAQUE_WIN32_KMT"
      [] v = "DirectX12Heap" -> "D3D12_HEAP"
      [] v = "DirectX12Resource" -> "D3D12_RESOURCE"
      [] v = "DirectX11Resource" -> "D3D11_RESOURCE_KMT"
      [] v = "DirectX11ResourceKMT" -> "D3D11_RESOURCE"
      [] v = "NvSciBuf" -> "NVSCIBUF"

(* impl Into<sys::CUexternalMemoryHandleType_enum> for ExternalMemoryType   *)
into(v) ==
    CASE v = "FileDescriptor" -> "OPAQUE_FD"
      [] v = "Windows" -> "OPAQUE_WIN32"
      [] v = "WindowsKMT" -> "OPAQUE_WIN32_KMT"
      [] v = "DirectX12Heap" -> "D3D12_HEAP"
      [] v = "DirectX12Resource" -> "D3D12_RESOURCE"
      [] v = "DirectX11Resource" -> "D3D11_RESOURCE"
      [] v = "DirectX11ResourceKMT" -> "D3D11_RESOURCE_KMT"
      [] v = "NvSciBuf" -> "NVSCIBUF"

(* the conversion from a native code back to a variant: the file has no     *)
(* From, TryFrom or other function from the native enumeration or from u32  *)
(* to ExternalMemoryType, so no native code is converted.                   *)
from_native == [h \in {} |-> "none"]

(* Range<usize>::len(): empty when start >= end *)
RangeLen(start, end) == IF start < end THEN end - start ELSE 0

(* the two assert!s of map_range *)
RangeAccepted(start, end, size) == start <= size /\ end <= size

(* ExternalMemory::drop without the cfg(windows) gate on the close of _file *)
ExternalMemoryDropClosesAlways(plat, cur, bindOk, destroyOk) ==
    LET b == bind_to_thread(bindOk, cur)
        d == Ev("destroy", destroyOk, b.cur, 0, 0)
    IN IF ~b.ok
       THEN [trace |-> b.trace, cur |-> b.cur, panic |-> TRUE, destroyed |-> 0, closed |-> 0]
       ELSE IF ~destroyOk
       THEN [trace |-> b.trace \o <<d>>, cur |-> b.cur, panic |-> TRUE,
             destroyed |-> 1, closed |-> 0]
       ELSE [trace |-> b.trace \o <<d, Ev("close", TRUE, b.cur, 0, 0)>>, cur |-> b.cur,
             panic |-> FALSE, destroyed |-> 1, closed |-> 1]

(* ExternalMemory::drop without the bind_to_thread() of its first line *)
ExternalMemoryDropNoBind(plat, cur, bindOk, destroyOk) ==
    LET d == Ev("destroy", destroyOk, cur, 0, 0)
    IN IF ~destroyOk
       THEN [trace |-> <<d>>, cur |-> cur, panic |-> TRUE, destroyed |-> 1, closed |-> 0]
       ELSE IF plat = "windows"
       THEN [trace |-> <<d, Ev("close", TRUE, cur, 0, 0)>>, cur |-> cur,
             panic |-> FALSE, destroyed |-> 1, closed |-> 1]
       ELSE [trace |-> <<d>>, cur |-> cur, panic |-> FALSE, destroyed |-> 1, closed |-> 0]

(* impl Drop for ExternalMemory: bind, destroy, and on windows close _file *)
ExternalMemoryDrop(plat, cur, bindOk, destroyOk) ==
    LET b == bind_to_thread(bindOk, cur)
        d == Ev("destroy", destroyOk, b.cur, 0, 0)
    IN IF ~b.ok
       THEN [trace |-> b.trace, cur |-> b.cur, panic |-> TRUE, destroyed |-> 0, closed |-> 0]
       ELSE IF ~destroyOk
       THEN [trace |-> b.trace \o <<d>>, cur |-> b.cur, panic |-> TRUE,
             destroyed |-> 1, closed |-> 0]
       ELSE IF plat = "windows"
       THEN [trace |-> b.trace \o <<d, Ev("close", TRUE, b.cur, 0, 0)>>, cur |-> b.cur,
             panic |-> FALSE, destroyed |-> 1, closed |-> 1]
       ELSE [trace |-> b.trace \o <<d>>, cur |-> b.cur, panic |-> FALSE,
             destroyed |-> 1, closed |-> 0]

(* MappedBuffer::drop that also destroys the native import object itself *)
MappedBufferDropDestroysTwice(plat, cur, bindOk, freeOk, bind2Ok, destroyOk) ==
    LET b == bind_to_thread(bindOk, cur)
        f == Ev("free", freeOk, b.cur, 0, 0)
        x == Ev("destroy", TRUE, b.cur, 0, 0)
        own == IF ~b.ok THEN [trace |-> b.trace, panic |-> TRUE, freed |-> 0, destroyed |-> 0]
               ELSE [trace |-> b.trace \o <<f>> \o (IF freeOk THEN <<b.trace[1], x>> ELSE <<>>),
                     panic |-> ~freeOk, freed |-> 1, destroyed |-> IF freeOk THEN 1 ELSE 0]
        inner == ExternalMemoryDrop(plat, b.cur, bind2Ok, destroyOk)
    IN [trace |-> own.trace \o inner.trace, cur |-> inner.cur,
        panic |-> own.panic \/ inner.panic, abort |-> own.panic /\ inner.panic,
        freed |-> own.freed, destroyed |-> own.destroyed + inner.destroyed,
        closed |-> inner.closed]

(* a MappedBuffer whose external_memory field is dropped before the device  *)
(* pointer is freed                                                         *)
MappedBufferDropFieldFirst(plat, cur, bindOk, freeOk, bind2Ok, destroyOk) ==
    LET inner == ExternalMemoryDrop(plat, cur, bind2Ok, destroyOk)
        b == bind_to_thread(bindOk, inner.cur)
        f == Ev("free", freeOk, b.cur, 0, 0)
        own == IF ~b.ok THEN [trace |-> b.trace, panic |-> TRUE, freed |-> 0]
               ELSE [trace |-> b.trace \o <<f>>, panic |-> ~freeOk, freed |-> 1]
    IN [trace |-> inner.trace \o own.trace, cur |-> b.cur,
        panic |-> own.panic \/ inner.panic, abort |-> own.panic /\ inner.panic,
        freed |-> own.freed, destroyed |-> inner.destroyed, closed |-> inner.closed]

(* impl Drop for MappedBuffer: bind, free; the external_memory field is     *)
(* dropped afterwards, also when drop() unwinds.                            *)
MappedBufferDrop(plat, cur, bindOk, freeOk, bind2Ok, destroyOk) ==
    LET b == bind_to_thread(bindOk, cur)
        f == Ev("free", freeOk, b.cur, 0, 0)
        own == IF ~b.ok THEN [trace |-> b.trace, panic |-> TRUE, freed |-> 0]
               ELSE [trace |-> b.trace \o <<f>>, panic |-> ~freeOk, freed |-> 1]
        inner == ExternalMemoryDrop(plat, b.cur, bind2Ok, destroyOk)
    IN [trace |-> own.trace \o inner.trace, cur |-> inner.cur,
        panic |-> own.panic \/ inner.panic, abort |-> own.panic /\ inner.panic,
        freed |-> own.freed, destroyed |-> inner.destroyed, closed |-> inner.closed]

NextMem == IF \E i \in Mems : mem[i].st = "none"
           THEN CHOOSE i \in Mems : mem[i].st = "none" /\ \A j \in Mems : j < i => mem[j].st # "none"
           ELSE 0

NextView == IF \E v \in Views : views[v].st = "none"
            THEN CHOOSE v \in Views : views[v].st = "none" /\ \A w \in Views : w < v => views[w].st # "none"
            ELSE 0

LiveViewsOf(i) == {v \in Views : views[v].st = "live" /\ views[v].mem = i}

(* a MipMappedArray that holds no reference to its ExternalMemory *)
NeverBorrowed(i) == FALSE

(* a value that is borrowed by a MipMappedArray<'a> can be neither moved nor dropped *)
Borrowed(i) == LiveViewsOf(i) # {}

NoMem == [st |-> "none", size |-> 0, destroyed |-> 0, freed |-> 0, closed |-> 0,
          nbuf |-> 0, len |-> 0]
NoView == [st |-> "none", mem |-> 0, destroyed |-> 0]

(* In the actions below each native call and each context bind draws its    *)
(* outcome (ok or failed) from BOOLEAN; the outcome of a call that the      *)
(* operation does not reach is not drawn (it is fixed to TRUE).             *)
Init ==
    /\ platform \in Platforms
    /\ current = "other"
    /\ mem = [i \in Mems |-> NoMem]
    /\ views = [v \in Views |-> NoView]
    /\ rc = 1
    /\ held = TRUE
    /\ last = NoOp
    /\ halted = FALSE

(* import_external_memory that wraps the File in ManuallyDrop before the    *)
(* bind and the native import                                               *)
import_external_memory_SuppressesFirst(cur, size, type_, bindOk, importOk) ==
    LET b == bind_to_thread(bindOk, cur)
        imp == Ev("import", importOk, b.cur, size, AsU32(into(type_)))
    IN IF ~b.ok
       THEN [trace |-> b.trace, cur |-> b.cur, outcome |-> "err", created |-> FALSE,
             closed |-> 0]
       ELSE IF ~importOk
       THEN [trace |-> b.trace \o <<imp>>, cur |-> b.cur, outcome |-> "err",
             created |-> FALSE, closed |-> 0]
       ELSE [trace |-> b.trace \o <<imp>>, cur |-> b.cur, outcome |-> "ok",
             created |-> TRUE, closed |-> 0]

(* import_external_memory without the ? on bind_to_thread() *)
import_external_memory_IgnoresBind(cur, size, type_, bindOk, importOk) ==
    LET b == bind_to_thread(bindOk, cur)
        imp == Ev("import", importOk, b.cur, size, AsU32(into(type_)))
    IN IF ~importOk
       THEN [trace |-> b.trace \o <<imp>>, cur |-> b.cur, outcome |-> "err",
             created |-> FALSE, closed |-> 1]
       ELSE [trace |-> b.trace \o <<imp>>, cur |-> b.cur, outcome |-> "ok",
             created |-> TRUE, closed |-> 0]

(* body of CudaDevice::import_external_memory: bind, native import of       *)
(* (size, type_.into()); either                                             *)
(* failure returns the error before an ExternalMemory is built, and the     *)
(* File argument is then dropped (closed) on return.                        *)
import_external_memory(cur, size, type_, bindOk, importOk) ==
    LET b == bind_to_thread(bindOk, cur)
        imp == Ev("import", importOk, b.cur, size, AsU32(into(type_)))
    IN IF ~b.ok
       THEN [trace |-> b.trace, cur |-> b.cur, outcome |-> "err", created |-> FALSE,
             closed |-> 1]
       ELSE IF ~importOk
       THEN [trace |-> b.trace \o <<imp>>, cur |-> b.cur, outcome |-> "err",
             created |-> FALSE, closed |-> 1]
       ELSE [trace |-> b.trace \o <<imp>>, cur |-> b.cur, outcome |-> "ok",
             created |-> TRUE, closed |-> 0]

(* a map_range that builds the MappedBuffer without taking the handle       *)
NotMovedIntoBuffer(m, len) == [m EXCEPT !.nbuf = @ + 1, !.len = len]

(* Ok(MappedBuffer { device_ptr, len, external_memory: self }): the handle  *)
(* is moved into the buffer.                                                *)
MovedIntoBuffer(m, len) == [m EXCEPT !.st = "mapped", !.nbuf = @ + 1, !.len = len]

(* a map_range that issues the native call before its assertions            *)
map_rangeChecksAfterCall(plat, cur, size, start, end, getOk, bindOk, destroyOk) ==
    LET g == Ev("get_mapped_buffer", getOk, cur, start, RangeLen(start, end))
        d == ExternalMemoryDrop(plat, cur, bindOk, destroyOk)
    IN IF ~getOk
       THEN [trace |-> <<g>> \o d.trace, cur |-> d.cur,
             outcome |-> IF d.panic THEN "panic" ELSE "err",
             cause |-> IF d.panic THEN "unwrap" ELSE "none",
             mapped |-> FALSE, len |-> 0, destroyed |-> d.destroyed, closed |-> d.closed]
       ELSE IF ~RangeAccepted(start, end, size)
       THEN [trace |-> <<g>> \o d.trace, cur |-> d.cur,
             outcome |-> IF d.panic THEN "abort" ELSE "panic", cause |-> "assert",
             mapped |-> FALSE, len |-> 0, destroyed |-> d.destroyed, closed |-> d.closed]
       ELSE [trace |-> <<g>>, cur |-> cur, outcome |-> "ok", cause |-> "none",
             mapped |-> TRUE, len |-> RangeLen(start, end), destroyed |-> 0, closed |-> 0]

(* a map_range that returns the driver's error without dropping self        *)
map_rangeLeaksOnError(plat, cur, size, start, end, getOk, bindOk, destroyOk) ==
    LET g == Ev("get_mapped_buffer", getOk, cur, start, RangeLen(start, end))
        d == ExternalMemoryDrop(plat, cur, bindOk, destroyOk)
    IN IF ~RangeAccepted(start, end, size)
       THEN [trace |-> d.trace, cur |-> d.cur,
             outcome |-> IF d.panic THEN "abort" ELSE "panic", cause |-> "assert",
             mapped |-> FALSE, len |-> 0, destroyed |-> d.destroyed, closed |-> d.closed]
       ELSE IF ~getOk
       THEN [trace |-> <<g>>, cur |-> cur, outcome |-> "err", cause |-> "none",
             mapped |-> FALSE, len |-> 0, destroyed |-> 0, closed |-> 0]
       ELSE [trace |-> <<g>>, cur |-> cur, outcome |-> "ok", cause |-> "none",
             mapped |-> TRUE, len |-> RangeLen(start, end), destroyed |-> 0, closed |-> 0]

(* body of ExternalMemory::map_range; self is dropped on every path that    *)
(* does not move it into the MappedBuffer.                                  *)
map_range(plat, cur, size, start, end, getOk, bindOk, destroyOk) ==
    LET g == Ev("get_mapped_buffer", getOk, cur, start, RangeLen(start, end))
        d == ExternalMemoryDrop(plat, cur, bindOk, destroyOk)
    IN IF ~RangeAccepted(start, end, size)
       THEN [trace |-> d.trace, cur |-> d.cur,
             outcome |-> IF d.panic THEN "abort" ELSE "panic", cause |-> "assert",
             mapped |-> FALSE, len |-> 0, destroyed |-> d.destroyed, closed |-> d.closed]
       ELSE IF ~getOk
       THEN [trace |-> <<g>> \o d.trace, cur |-> d.cur,
             outcome |-> IF d.panic THEN "panic" ELSE "err",
             cause |-> IF d.panic THEN "unwrap" ELSE "none",
             mapped |-> FALSE, len |-> 0, destroyed |-> d.destroyed, closed |-> d.closed]
       ELSE [trace |-> <<g>>, cur |-> cur, outcome |-> "ok", cause |-> "none",
             mapped |-> TRUE, len |-> RangeLen(start, end), destroyed |-> 0, closed |-> 0]

(* an ExternalMemory built without a clone of the Arc<CudaDevice> *)
DeviceNotCloned(n) == n

(* device: self.clone(): one more strong reference to the CudaDevice *)
DeviceCloned(n) == n + 1

Import(size, type_, bindOk, importOk) ==
    LET i == NextMem
        r == import_external_memory(current, size, type_, bindOk, importOk)
    IN /\ ~halted
       /\ held
       /\ i # 0
       /\ ~bindOk => importOk
       /\ current' = r.cur
       /\ mem' = IF r.created
                 THEN [mem EXCEPT ![i].st = "handle", ![i].size = size]
                 ELSE [mem EXCEPT ![i].st = "failed", ![i].closed = @ + r.closed]
       /\ rc' = IF r.created THEN DeviceCloned(rc) ELSE rc
       /\ last' = [Done("import", i, 0, 0, 0, size, r.outcome, "none", r.trace)
                      EXCEPT !.ty = type_]
       /\ UNCHANGED <<platform, views, held, halted>>

DropHandle(i, bindOk, destroyOk) ==
    LET r == ExternalMemoryDrop(platform, current, bindOk, destroyOk)
    IN /\ ~halted
       /\ mem[i].st = "handle"
       /\ ~Borrowed(i)
       /\ ~bindOk => destroyOk
       /\ current' = r.cur
       /\ mem' = [mem EXCEPT ![i].st = "dropped", ![i].size = 0,
                             ![i].destroyed = @ + r.destroyed,
                             ![i].closed = @ + r.closed]
       /\ rc' = rc - 1
       /\ last' = Done("drop_handle", i, 0, 0, 0, 0, IF r.panic THEN "panic" ELSE "ok",
                       IF r.panic THEN "unwrap" ELSE "none", r.trace)
       /\ UNCHANGED <<platform, views, held, halted>>

MapApply(op, i, start, end, getOk, bindOk, destroyOk) ==
    LET r == map_range(platform, current, mem[i].size, start, end, getOk, bindOk, destroyOk)
    IN /\ ~halted
       /\ mem[i].st = "handle"
       /\ ~Borrowed(i)
       /\ ~RangeAccepted(start, end, mem[i].size) => getOk
       /\ (RangeAccepted(start, end, mem[i].size) /\ getOk) => (bindOk /\ destroyOk)
       /\ ~bindOk => destroyOk
       /\ current' = r.cur
       /\ mem' = IF r.mapped
                 THEN [mem EXCEPT ![i] = MovedIntoBuffer(@, r.len)]
                 ELSE [mem EXCEPT ![i].st = "dropped", ![i].size = 0,
                                  ![i].destroyed = @ + r.destroyed,
                                  ![i].closed = @ + r.closed]
       /\ rc' = IF r.mapped THEN rc ELSE rc - 1
       /\ last' = Done(op, i, 0, start, end, mem[i].size, r.outcome, r.cause, r.trace)
       /\ halted' = (r.outcome = "abort")
       /\ UNCHANGED <<platform, views, held>>

MapRange(i, start, end, getOk, bindOk, destroyOk) ==
    MapApply("map_range", i, start, end, getOk, bindOk, destroyOk)

(* a map_all whose range ends one past the size *)
MapAllPastEnd(i, getOk, bindOk, destroyOk) ==
    MapApply("map_all", i, 0, mem[i].size + 1, getOk, bindOk, destroyOk)

(* ExternalMemory::map_all: map_range(0..size); `self.size as usize` keeps  *)
(* the value on the 64-bit targets of the driver.                           *)
MapAll(i, getOk, bindOk, destroyOk) ==
    MapApply("map_all", i, 0, mem[i].size, getOk, bindOk, destroyOk)

DropMapped(i, bindOk, freeOk, bind2Ok, destroyOk) ==
    LET r == MappedBufferDrop(platform, current, bindOk, freeOk, bind2Ok, destroyOk)
    IN /\ ~halted
       /\ mem[i].nbuf > 0
       /\ ~bindOk => freeOk
       /\ ~bind2Ok => destroyOk
       /\ current' = r.cur
       /\ mem' = [mem EXCEPT ![i].st = "dropped", ![i].nbuf = @ - 1,
                             ![i].size = 0, ![i].len = 0,
                             ![i].freed = @ + r.freed,
                             ![i].destroyed = @ + r.destroyed,
                             ![i].closed = @ + r.closed]
       /\ rc' = rc - 1
       /\ last' = Done("drop_mapped", i, 0, 0, 0, 0,
                       IF r.abort THEN "abort" ELSE IF r.panic THEN "panic" ELSE "ok",
                       IF r.panic THEN "unwrap" ELSE "none", r.trace)
       /\ halted' = r.abort
       /\ UNCHANGED <<platform, views, held>>

(* ExternalMemory::mipmapped_array(&self, width, height) *)
MipmappedArray(i, w, h, ok) ==
    LET v == NextView
        g == Ev("get_mapped_mipmapped_array", ok, current, w, h)
    IN /\ ~halted
       /\ mem[i].st = "handle"
       /\ v # 0
       /\ views' = IF ok
                   THEN [views EXCEPT ![v] = [st |-> "live", mem |-> i, destroyed |-> 0]]
                   ELSE views
       /\ last' = Done("mipmapped_array", i, IF ok THEN v ELSE 0, w, h, 0,
                       IF ok THEN "ok" ELSE "err", "none", <<g>>)
       /\ UNCHANGED <<platform, current, mem, rc, held, halted>>

(* a level() that rejects every level above 0 itself, without the native call *)
LevelCheckedLocally(v, lvl, ok) ==
    /\ ~halted
    /\ views[v].st = "live"
    /\ last' = IF lvl > 0
               THEN Done("level", views[v].mem, v, lvl, 0, 0, "err", "none", <<>>)
               ELSE Done("level", views[v].mem, v, lvl, 0, 0, IF ok THEN "ok" ELSE "err",
                         "none", <<Ev("get_level", ok, current, lvl, 0)>>)
    /\ UNCHANGED <<platform, current, mem, views, rc, held, halted>>

(* MipMappedArray::level(&self, level) *)
Level(v, lvl, ok) ==
    /\ ~halted
    /\ views[v].st = "live"
    /\ last' = Done("level", views[v].mem, v, lvl, 0, 0, IF ok THEN "ok" ELSE "err", "none",
                    <<Ev("get_level", ok, current, lvl, 0)>>)
    /\ UNCHANGED <<platform, current, mem, views, rc, held, halted>>

(* a drop of a MipMappedArray that destroys every array mapped from the     *)
(* same external memory                                                     *)
DropViewOfHandle(v, ok) ==
    /\ ~halted
    /\ views[v].st = "live"
    /\ views' = [w \in Views |->
                    IF w = v THEN [views[w] EXCEPT !.st = "dropped", !.destroyed = @ + 1]
                    ELSE IF views[w].st = "live" /\ views[w].mem = views[v].mem
                    THEN [views[w] EXCEPT !.destroyed = @ + 1]
                    ELSE views[w]]
    /\ last' = Done("drop_view", views[v].mem, v, 0, 0, 0, "ok", "none",
                    <<Ev("mipmapped_array_destroy", ok, current, 0, 0)>>)
    /\ UNCHANGED <<platform, current, mem, rc, held, halted>>

(* impl Drop for MipMappedArray: the status of cuMipmappedArrayDestroy is discarded *)
DropView(v, ok) ==
    /\ ~halted
    /\ views[v].st = "live"
    /\ views' = [views EXCEPT ![v].st = "dropped", ![v].destroyed = @ + 1]
    /\ last' = Done("drop_view", views[v].mem, v, 0, 0, 0, "ok", "none",
                    <<Ev("mipmapped_array_destroy", ok, current, 0, 0)>>)
    /\ UNCHANGED <<platform, current, mem, rc, held, halted>>

(* the caller drops the Arc<CudaDevice> it imported with; the device stays  *)
(* alive while an ExternalMemory still holds a clone                        *)
DropDevice ==
    /\ ~halted
    /\ held
    /\ held' = FALSE
    /\ rc' = rc - 1
    /\ UNCHANGED <<platform, current, mem, views, last, halted>>

(* other code on the calling thread makes a different context current *)
BindOther ==
    /\ ~halted
    /\ current # "other"
    /\ current' = "other"
    /\ UNCHANGED <<platform, mem, views, rc, held, last, halted>>

Next ==
    \/ \E s \in Sizes, t \in ExternalMemoryTypeOn(platform), bo \in BOOLEAN, io \in BOOLEAN :
          Import(s, t, bo, io)
    \/ \E i \in Mems, bo \in BOOLEAN, d \in BOOLEAN : DropHandle(i, bo, d)
    \/ \E i \in Mems, s \in Coords, e \in Coords, g \in BOOLEAN, bo \in BOOLEAN, d \in BOOLEAN :
          MapRange(i, s, e, g, bo, d)
    \/ \E i \in Mems, g \in BOOLEAN, bo \in BOOLEAN, d \in BOOLEAN : MapAll(i, g, bo, d)
    \/ \E i \in Mems, bo \in BOOLEAN, f \in BOOLEAN, b2 \in BOOLEAN, d \in BOOLEAN :
          DropMapped(i, bo, f, b2, d)
    \/ \E i \in Mems, w \in Dims, h \in Dims, ok \in BOOLEAN : MipmappedArray(i, w, h, ok)
    \/ \E v \in Views, l \in Levels, ok \in BOOLEAN : Level(v, l, ok)
    \/ \E v \in Views, ok \in BOOLEAN : DropView(v, ok)
    \/ BindOther
    \/ DropDevice

Spec == Init /\ [][Next]_vars

TypeOK ==
    /\ platform \in Platforms
    /\ current \in {"dev", "other"}
    /\ \A i \in Mems : mem[i].st \in {"none", "failed", "handle", "mapped", "dropped"}
    /\ \A v \in Views : views[v].st \in {"none", "live", "dropped"}
    /\ rc \in Nat
    /\ held \in BOOLEAN
    /\ halted \in BOOLEAN
    /\ last.ty \in ExternalMemoryType \cup {"none"}
    /\ \A k \in DOMAIN last.trace : last.trace[k].call = "import" =>
          last.trace[k].b \in {AsU32(h) : h \in CUexternalMemoryHandleType_enum}

(* ---- helpers over the calls of the last operation ---- *)
Trace == last.trace

Idx(c) == {k \in DOMAIN Trace : Trace[k].call = c}

Issued(c) == Cardinality(Idx(c))

(* the last operation ran the destructor of the External Memory Handle *)
DroppedHandle ==
    \/ last.op \in {"drop_handle", "drop_mapped"}
    \/ last.op \in {"map_range", "map_all"} /\ last.outcome # "ok"

(* the context bind of the handle's destructor (the last bind of the operation) succeeded *)
HandleBindOk ==
    \E k \in Idx("bind") : Trace[k].ok /\ \A j \in Idx("bind") : j <= k

(* the context bind of MappedBuffer::drop (the first call of the operation) succeeded *)
BufferBindOk == Trace # <<>> /\ Trace[1].call = "bind" /\ Trace[1].ok

Live(i) == mem[i].st \in {"handle", "mapped"}

(* C1, as stated: every native external-memory object of a successful       *)
(* import is destroyed exactly once: never twice, and never zero times once *)
(* its owner (the handle, or the Mapped Buffer it was moved into) has been  *)
(* dropped.                                                                 *)
C1_DestroyedExactlyOnce ==
    ~halted =>
        \A i \in Mems :
            /\ mem[i].destroyed <= 1
            /\ mem[i].st = "dropped" => mem[i].destroyed = 1

(* C1, amended: the native destroy is never issued twice for an import and  *)
(* never while its owner is alive, and the handle's destructor issues it    *)
(* exactly once whenever its context bind succeeds (a failed bind panics    *)
(* before the native destroy, which is then never issued).                  *)
C1_DestroyedOnceIfBound ==
    \A i \in Mems :
        /\ mem[i].destroyed <= 1
        /\ mem[i].st \in {"none", "failed", "handle", "mapped"} => mem[i].destroyed = 0
        /\ (mem[i].st = "dropped" /\ last.mem = i /\ DroppedHandle) =>
              /\ Issued("destroy") = mem[i].destroyed
              /\ mem[i].destroyed = 1 <=> HandleBindOk

(* C1 witness: an import moved into a Mapped Buffer, the buffer dropped,    *)
(* the device pointer freed and the native object destroyed once.           *)
C1_Witness ==
    \E i \in Mems : /\ mem[i].st = "dropped" /\ mem[i].freed = 1 /\ mem[i].destroyed = 1
                    /\ last.op = "drop_mapped" /\ last.mem = i

(* C2, as stated: dropping a Mapped Buffer invokes the native free and the  *)
(* native destroy each exactly once, the free before the destroy.           *)
C2_FreeAndDestroyOnce ==
    (last.op = "drop_mapped" /\ ~halted) =>
        /\ Issued("free") = 1
        /\ Issued("destroy") = 1
        /\ \A f \in Idx("free"), d \in Idx("destroy") : f < d

(* C2, amended: dropping a Mapped Buffer issues the native free exactly     *)
(* when the buffer's context bind succeeds and the native destroy exactly   *)
(* when the embedded handle's context bind succeeds, each at most once and  *)
(* never the destroy before the free; with both binds successful each is    *)
(* issued exactly once, free first.                                         *)
C2_FreeThenDestroy ==
    last.op = "drop_mapped" =>
        /\ Issued("free") = (IF BufferBindOk THEN 1 ELSE 0)
        /\ Issued("destroy") = (IF HandleBindOk THEN 1 ELSE 0)
        /\ \A f \in Idx("free"), d \in Idx("destroy") : f < d
        /\ mem[last.mem].freed = Issued("free")
        /\ mem[last.mem].destroyed = Issued("destroy")

(* C2 witness: a Mapped Buffer dropped without failure: free, then destroy. *)
C2_Witness ==
    /\ last.op = "drop_mapped" /\ last.outcome = "ok"
    /\ \E f \in Idx("free"), d \in Idx("destroy") : f < d

(* C3, as stated: on unix this layer never closes the raw handle passed to  *)
(* import; on windows it closes it exactly once, at the destruction of the  *)
(* handle and after the native destroy, never before and never twice.       *)
C3_RawHandleClose ==
    ~halted =>
        \A i \in Mems :
            /\ platform = "unix" => mem[i].closed = 0
            /\ platform = "windows" =>
                  /\ mem[i].closed <= 1
                  /\ Live(i) => mem[i].closed = 0
                  /\ mem[i].st = "dropped" => mem[i].closed = 1 /\ mem[i].destroyed = 1

(* C3, amended: for a successful import, on unix this layer never closes    *)
(* the raw handle; on windows it closes it at most once, never while the    *)
(* handle is alive, only in the handle's destructor right after a           *)
(* successful native destroy, and exactly once whenever that destructor     *)
(* completes without a panic.  (A failed import closes the File on return   *)
(* on both platforms.)                                                      *)
C3_RawHandleCloseOfImported ==
    \A i \in Mems :
        mem[i].st # "failed" =>
            /\ platform = "unix" => mem[i].closed = 0
            /\ platform = "windows" =>
                  /\ mem[i].closed <= 1
                  /\ mem[i].st \in {"none", "handle", "mapped"} => mem[i].closed = 0
                  /\ mem[i].closed = 1 => mem[i].destroyed = 1
                  /\ (mem[i].st = "dropped" /\ last.mem = i /\ DroppedHandle) =>
                        /\ Issued("close") = mem[i].closed
                        /\ mem[i].closed = 1 <=>
                              \E d \in Idx("destroy") : Trace[d].ok
                        /\ \A c \in Idx("close") :
                              c > 1 /\ Trace[c - 1].call = "destroy" /\ Trace[c - 1].ok

(* C3 witness: on windows a handle is dropped and its File closed once,     *)
(* after the native destroy.                                                *)
C3_Witness ==
    /\ platform = "windows" /\ last.op = "drop_handle"
    /\ mem[last.mem].closed = 1 /\ Issued("close") = 1

(* a map_range or map_all step on import i; a mipmapped_array step on i *)
MapStep(i) ==
    \/ \E s \in Coords, e \in Coords, g \in BOOLEAN, bo \in BOOLEAN, d \in BOOLEAN :
          MapRange(i, s, e, g, bo, d)
    \/ \E g \in BOOLEAN, bo \in BOOLEAN, d \in BOOLEAN : MapAll(i, g, bo, d)

MipStep(i) == \E w \in Dims, h \in Dims, ok \in BOOLEAN : MipmappedArray(i, w, h, ok)

(* C4: at most one live Mapped Buffer exists per import, and once an import *)
(* is mapped no map_range, map_all or mipmapped_array step on it is         *)
(* possible.                                                                *)
C4_OneMappedBuffer ==
    \A i \in Mems :
        /\ mem[i].nbuf <= 1
        /\ mem[i].nbuf = 1 => mem[i].st = "mapped" /\ ~ENABLED MapStep(i) /\ ~ENABLED MipStep(i)

(* C4 witness: a live Mapped Buffer produced by a successful map_range.     *)
C4_Witness ==
    /\ last.op = "map_range" /\ last.outcome = "ok"
    /\ mem[last.mem].nbuf = 1

(* C5: while a Mipmapped Array View is undestroyed, the handle it borrows   *)
(* is alive as a handle (neither dropped nor moved into a Mapped Buffer)    *)
(* and its native external-memory object has not been destroyed.            *)
C5_ViewWithinHandle ==
    \A v \in Views :
        views[v].st = "live" =>
            /\ mem[views[v].mem].st = "handle"
            /\ mem[views[v].mem].destroyed = 0
            /\ views[v].destroyed = 0

(* C5 witness: the handle of a destroyed view is destroyed afterwards.      *)
C5_Witness ==
    \E v \in Views : /\ views[v].st = "dropped"
                     /\ mem[views[v].mem].st = "dropped"
                     /\ mem[views[v].mem].destroyed = 1

(* C6, as stated: map_range hard-stops on its range check exactly for the   *)
(* triples with start > end or end > size.                                  *)
C6_RangeRejected ==
    last.op = "map_range" =>
        (last.cause = "assert" <=> (last.a > last.b \/ last.b > last.n))

(* C7, as stated: every native driver call of an operation is preceded, in  *)
(* that operation, by a successful context bind.                            *)
C7_BindBeforeNativeCall ==
    \A k \in DOMAIN Trace :
        Trace[k].call \notin {"bind", "close"} =>
            \E j \in DOMAIN Trace : j < k /\ Trace[j].call = "bind" /\ Trace[j].ok

(* C8: every native destroy of an external-memory object and every native   *)
(* free is issued right after a successful bind of the owning context, so   *)
(* with that context current whatever was current before; the destruction   *)
(* of a Mipmapped Array View issues its native destroy with no bind, in     *)
(* whatever context is current.                                             *)
C8_BindBeforeDestroy ==
    /\ \A k \in Idx("destroy") \cup Idx("free") :
          /\ k > 1
          /\ Trace[k - 1].call = "bind" /\ Trace[k - 1].ok
          /\ Trace[k].ctx = "dev"
    /\ last.op = "drop_view" =>
          /\ Idx("bind") = {}
          /\ Len(Trace) = 1 /\ Trace[1].call = "mipmapped_array_destroy"

(* C8 witness: a Mapped Buffer dropped while another context was current.   *)
C8_Witness ==
    /\ last.op = "drop_mapped" /\ last.outcome = "ok"
    /\ Trace[1].ctx = "other"
    /\ Issued("free") = 1 /\ Issued("destroy") = 1

(* C9: an import whose context bind or native import fails returns a driver *)
(* error and creates no handle: nothing of that import is ever destroyed,   *)
(* freed, mapped or dropped; after a failed bind the native import is not   *)
(* issued.                                                                  *)
C9_ImportFailure ==
    /\ (last.op = "import" /\ \E k \in DOMAIN Trace : ~Trace[k].ok) =>
          /\ last.outcome = "err"
          /\ mem[last.mem].st = "failed"
          /\ ~Trace[1].ok => Idx("import") = {}
    /\ \A i \in Mems :
          mem[i].st = "failed" =>
              /\ mem[i].destroyed = 0 /\ mem[i].freed = 0 /\ mem[i].nbuf = 0
              /\ LiveViewsOf(i) = {}
              /\ ~ENABLED MapStep(i) /\ ~ENABLED MipStep(i)

(* C9 witness: an import whose context bind failed.                         *)
C9_Witness ==
    /\ last.op = "import" /\ last.outcome = "err"
    /\ Len(Trace) = 1 /\ Trace[1].call = "bind" /\ ~Trace[1].ok

(* C10, as stated: a native failure during automatic cleanup is a hard      *)
(* stop, neither propagated nor ignored.                                    *)
C10_CleanupFailureStops ==
    (last.op \in {"drop_handle", "drop_mapped", "drop_view"}
        /\ \E k \in DOMAIN Trace : ~Trace[k].ok) =>
        last.outcome \in {"panic", "abort"}

(* C11: map_all on a handle of size N is map_range(0..N): the same range,   *)
(* the same native calls with the same arguments in the same order, the     *)
(* same outcome (Mapped Buffer of the same length, driver error or panic).  *)
C11_MapAllIsFullRange ==
    last.op = "map_all" =>
        /\ last.a = 0 /\ last.b = last.n
        /\ \E g \in BOOLEAN, bo \in BOOLEAN, d \in BOOLEAN :
              LET r == map_range(platform, Trace[1].ctx, last.n, 0, last.n, g, bo, d)
              IN /\ r.trace = Trace
                 /\ r.outcome = last.outcome
                 /\ r.cause = last.cause
                 /\ r.mapped => (mem[last.mem].st = "mapped" /\ mem[last.mem].len = r.len)
        /\ last.outcome = "ok" =>
              /\ Trace = <<Ev("get_mapped_buffer", TRUE, Trace[1].ctx, 0, last.n)>>
              /\ mem[last.mem].len = last.n

(* C11 witness: map_all succeeded on a handle of positive size.             *)
C11_Witness ==
    /\ last.op = "map_all" /\ last.outcome = "ok"
    /\ last.n > 0 /\ mem[last.mem].len = last.n

LevelStep(v) == \E l \in Levels, ok \in BOOLEAN : Level(v, l, ok)

(* C12: views of one live handle coexist and are independent: a further     *)
(* view can always be created from a live handle whatever views it already  *)
(* has; the drop of a view issues one native destroy, for its own array     *)
(* only; every view's array is destroyed exactly once, at its drop, and a   *)
(* view that is still alive has an undestroyed array and answers level      *)
(* queries.                                                                 *)
C12_ViewsIndependent ==
    /\ \A v \in Views :
          /\ views[v].st \in {"none", "live"} => views[v].destroyed = 0
          /\ views[v].st = "dropped" => views[v].destroyed = 1
          /\ (views[v].st = "live" /\ ~halted) => ENABLED LevelStep(v)
    /\ \A i \in Mems :
          (mem[i].st = "handle" /\ NextView # 0 /\ ~halted) => ENABLED MipStep(i)
    /\ last.op = "drop_view" =>
          /\ Len(Trace) = 1 /\ Trace[1].call = "mipmapped_array_destroy"
          /\ views[last.view].st = "dropped"

(* C12 witness: of two views of the same handle one has been dropped, the   *)
(* other is alive.                                                          *)
C12_Witness ==
    /\ last.op = "drop_view"
    /\ \E w \in Views : /\ w # last.view
                        /\ views[w].st = "live"
                        /\ views[w].mem = last.mem
                        /\ views[w].destroyed = 0

(* the External Memory Handles alive, standalone or inside a Mapped Buffer *)
LiveHandles == {i \in Mems : Live(i)}

(* C13: the device's reference count is at least the number of live         *)
(* External Memory Handles, so the device is not released (count 0) while   *)
(* a handle whose destructor has still to bind its context is alive.        *)
C13_DeviceOutlivesHandles ==
    /\ rc >= Cardinality(LiveHandles)
    /\ LiveHandles # {} => rc > 0
    /\ rc = Cardinality(LiveHandles) + (IF held THEN 1 ELSE 0)

(* C13 witness: the caller has dropped its own reference and a live handle  *)
(* alone keeps the device alive.                                            *)
C13_Witness ==
    /\ ~held /\ rc = 1
    /\ \E i \in Mems : mem[i].st = "mapped"

(* C14: level() forwards every index to the native get-level call with no   *)
(* check of its own, returns the level array when the native call succeeds  *)
(* and a driver error when it fails, never panics, and changes nothing: the *)
(* view, the handles, the thread's context and the device's references      *)
(* stay as they were.                                                       *)
C14_LevelForwards ==
    /\ [](last.op = "level" =>
            /\ Len(Trace) = 1
            /\ Trace[1].call = "get_level"
            /\ Trace[1].a = last.a
            /\ last.outcome = (IF Trace[1].ok THEN "ok" ELSE "err")
            /\ views[last.view].st = "live" /\ views[last.view].destroyed = 0)
    /\ [][(last'.op = "level" /\ last' # last) =>
            /\ mem' = mem
            /\ views' = views
            /\ current' = current
            /\ rc' = rc
            /\ halted' = halted
            /\ views[last'.view].st = "live"]_vars

(* C14 witness: a level index above 0 was forwarded and rejected by the     *)
(* native call.                                                             *)
C14_Witness ==
    /\ last.op = "level" /\ last.outcome = "err" /\ last.a > 0
    /\ Issued("get_level") = 1 /\ Trace[1].a = last.a

(* the handle-type code handed to the native import by the last operation   *)
ImportedCode == Trace[CHOOSE k \in Idx("import") : TRUE].b

(* the forward table: distinct variants have distinct native codes, each    *)
(* variant's code is its declared discriminant, and an import passes the    *)
(* code of the type it was given.                                           *)
ForwardTable ==
    /\ \A v, w \in ExternalMemoryTypeOn(platform) :
          v # w => AsU32(into(v)) # AsU32(into(w))
    /\ \A v \in ExternalMemoryTypeOn(platform) :
          /\ into(v) \in CUexternalMemoryHandleType_enum
          /\ AsU32(into(v)) = Discriminant(v)
    /\ (last.op = "import" /\ Idx("import") # {}) =>
          /\ last.ty \in ExternalMemoryTypeOn(platform)
          /\ ImportedCode = Discriminant(last.ty)

C16_MappedLength ==
    (last.op \in {"map_range", "map_all"} /\ last.cause # "assert") =>
        /\ Trace # <<>>
        /\ Trace[1].call = "get_mapped_buffer"
        /\ Trace[1].a = last.a
        /\ Trace[1].b = last.b - last.a
        /\ last.outcome = "ok" =>
              /\ mem[last.mem].st = "mapped"
              /\ mem[last.mem].len = last.b - last.a
        /\ (last.op = "map_all" /\ last.n = 0) => Trace[1].b = 0

(* C17: when map_range or map_all returns the driver's error of the native  *)
(* get-mapped-buffer call, the handle it consumed has been destroyed within *)
(* that call: after the failed get-mapped-buffer the context is bound and   *)
(* the native destroy is issued exactly once, in the device's context; no   *)
(* native free is issued; and no map_range or map_all on that import is     *)
(* possible afterwards.                                                     *)
C17_FailedMapDestroysHandle ==
    /\ (last.op \in {"map_range", "map_all"} /\ last.outcome = "err") =>
          /\ Len(Trace) >= 3
          /\ Trace[1].call = "get_mapped_buffer" /\ ~Trace[1].ok
          /\ Issued("get_mapped_buffer") = 1
          /\ Trace[2].call = "bind" /\ Trace[2].ok /\ Issued("bind") = 1
          /\ Trace[3].call = "destroy" /\ Trace[3].ok /\ Trace[3].ctx = "dev"
          /\ Issued("destroy") = 1
          /\ Issued("free") = 0
          /\ mem[last.mem].st = "dropped"
          /\ mem[last.mem].destroyed = 1
          /\ mem[last.mem].freed = 0 /\ mem[last.mem].nbuf = 0
    /\ \A i \in Mems :
          mem[i].st = "dropped" =>
              /\ ~ENABLED MapStep(i)
              /\ ~ENABLED (\E bo \in BOOLEAN, f \in BOOLEAN, b2 \in BOOLEAN, d \in BOOLEAN :
                              DropMapped(i, bo, f, b2, d))

(* C17 witness: a map_all whose native get-mapped-buffer call failed        *)
(* returned the driver's error after one destroy of the handle.             *)
C17_Witness ==
    /\ last.op = "map_all" /\ last.outcome = "err"
    /\ ~Trace[1].ok /\ Issued("destroy") = 1
    /\ mem[last.mem].st = "dropped"

(* C18: when import_external_memory fails, at the context bind or at the    *)
(* native import, the raw handle passed in is closed by this layer exactly  *)
(* once, on unix and on windows alike, and never again; an import that      *)
(* succeeds closes nothing (the close is suppressed only then).             *)
C18_FailedImportClosesFile ==
    /\ (last.op = "import" /\ last.outcome = "err") =>
          /\ \E k \in DOMAIN Trace : ~Trace[k].ok
          /\ mem[last.mem].st = "failed"
          /\ mem[last.mem].closed = 1
    /\ (last.op = "import" /\ last.outcome = "ok") =>
          /\ \A k \in DOMAIN Trace : Trace[k].ok
          /\ mem[last.mem].st = "handle"
          /\ mem[last.mem].closed = 0
    /\ \A i \in Mems : mem[i].st = "failed" => mem[i].closed = 1

(* C18 witness: on unix the context bind succeeded, the native import       *)
(* failed and the raw handle was closed once.                               *)
C18_Witness ==
    /\ platform = "unix"
    /\ last.op = "import" /\ last.outcome = "err"
    /\ Len(Trace) = 2 /\ Trace[2].call = "import" /\ ~Trace[2].ok
    /\ mem[last.mem].closed = 1

(* the last operation was a map_range stopped by one of its assertions      *)
HardStopped == last.op \in {"map_range", "map_all"} /\ last.cause = "assert"

(* the part of C19 before the cleanup: the range check precedes every       *)
(* native call, so a hard stop issues no get-mapped-buffer and no free and  *)
(* creates no Mapped Buffer; the handle is consumed.                        *)
CheckedBeforeCall ==
    HardStopped =>
        /\ ~RangeAccepted(last.a, last.b, last.n)
        /\ Issued("get_mapped_buffer") = 0 /\ Issued("free") = 0
        /\ mem[last.mem].st = "dropped"
        /\ mem[last.mem].nbuf = 0 /\ mem[last.mem].freed = 0
        /\ last.outcome \in {"panic", "abort"}

(* C19, as stated: when map_range hard-stops on an invalid range no native  *)
(* get-mapped-buffer call is issued and no Mapped Buffer is created, and    *)
(* the consumed handle is destroyed exactly once during the hard stop: the  *)
(* context is bound, then the native destroy is issued.                     *)
C19_HardStopDestroysOnce ==
    /\ CheckedBeforeCall
    /\ HardStopped =>
          /\ Len(Trace) >= 2
          /\ Trace[1].call = "bind" /\ Trace[1].ok
          /\ Trace[2].call = "destroy"
          /\ Issued("bind") = 1 /\ Issued("destroy") = 1
          /\ mem[last.mem].destroyed = 1

(* C19, amended: when map_range hard-stops on an invalid range no native    *)
(* get-mapped-buffer call is issued and no Mapped Buffer is created; the    *)
(* handle's destructor runs during the unwinding and first binds the        *)
(* context, once; if that bind succeeds the native destroy is issued        *)
(* exactly once, right after it; if the bind fails no destroy is issued,    *)
(* the handle is never destroyed and the process aborts; a failed destroy   *)
(* aborts the process too.                                                  *)
C19_HardStopDestroysIfBound ==
    /\ CheckedBeforeCall
    /\ HardStopped =>
          /\ Trace # <<>>
          /\ Trace[1].call = "bind" /\ Issued("bind") = 1
          /\ Issued("destroy") = (IF Trace[1].ok THEN 1 ELSE 0)
          /\ Trace[1].ok => (Trace[2].call = "destroy" /\ Trace[2].ctx = "dev")
          /\ mem[last.mem].destroyed = Issued("destroy")
          /\ last.outcome = (IF \A k \in DOMAIN Trace : Trace[k].ok THEN "panic" ELSE "abort")
          /\ halted = (last.outcome = "abort")

(* C19 witness: a map_range whose start lies past the size panicked at the  *)
(* assertion and the unwinding destroyed the handle once.                   *)
C19_Witness ==
    /\ HardStopped /\ last.a > last.n
    /\ last.outcome = "panic"
    /\ Trace[1].call = "bind" /\ Trace[1].ok
    /\ Issued("destroy") = 1 /\ mem[last.mem].destroyed = 1
====
